---- MODULE Spec2Model ----
(***************************************************************************)
(* Model of the privacy proxy of src/main.py: the /proxy, /resource and    *)
(* /session/reset handlers over the two in-memory caches, the whitelist    *)
(* gate both fetching handlers share, and sanitize_and_rewrite_html.       *)
(*                                                                         *)
(* Strings are sequences of one-character strings, so that lower(),        *)
(* strip(), split() and startswith() are computed character by character.  *)
(***************************************************************************)
EXTENDS Integers, Sequences, FiniteSets, TLC

\* ------------------------------------------------------------------------
\* Bounds of the model
\* ------------------------------------------------------------------------
\* number of requests handled (possibly concurrently) in one behaviour
MaxReq == 2
\* number of distinct upstream versions of one page
MaxVersion == 2
\* number of comma-separated entries of a generated whitelist value
MaxRules == 2
\* number of elements of a generated input document
MaxNodes == 2
\* number of url(...) references of a generated stylesheet
MaxUrls == 2

\* ------------------------------------------------------------------------
\* String literals
\* ------------------------------------------------------------------------
S_http == <<"h", "t", "t", "p">>  \* "http"
S_http_slash == <<"h", "t", "t", "p", ":", "/", "/">>  \* "http://"
S_https_slash == <<"h", "t", "t", "p", "s", ":", "/", "/">>  \* "https://"
S_HTTPS_slash == <<"H", "T", "T", "P", "S", ":", "/", "/">>  \* "HTTPS://"
S_ftp_slash == <<"f", "t", "p", ":", "/", "/">>  \* "ftp://"
S_none == <<>>  \* ""
S_space == <<" ">>  \* " "
S_slash == <<"/">>  \* "/"
S_slash_a == <<"/", "a">>  \* "/a"
S_a == <<"a">>  \* "a"
S_A_padded == <<" ", "A", " ">>  \* " A "
S_b == <<"b">>  \* "b"
S_e == <<"e">>  \* "e"
S_httpd == <<"h", "t", "t", "p", "d">>  \* "httpd"
S_http_b == <<"h", "t", "t", "p", ":", "/", "/", "b">>  \* "http://b"
S_HTTP_B == <<"H", "T", "T", "P", ":", "/", "/", "B">>  \* "HTTP://B"
U_ftp == <<"f", "t", "p", ":", "/", "/", "a", "/">>  \* "ftp://a/"
U_a == <<"h", "t", "t", "p", "s", ":", "/", "/", "a", "/">>  \* "https://a/"
U_A == <<"H", "T", "T", "P", "S", ":", "/", "/", "A", "/">>  \* "HTTPS://A/"
U_r == <<"h", "t", "t", "p", "s", ":", "/", "/", "a", "/", "r">>  \* "https://a/r"

\* ------------------------------------------------------------------------
\* Python string operations
\* ------------------------------------------------------------------------
UpperAlpha == <<"A", "B", "C", "D", "E", "F", "G", "H", "I", "J", "K", "L", "M",
                "N", "O", "P", "Q", "R", "S", "T", "U", "V", "W", "X", "Y", "Z">>
LowerAlpha == <<"a", "b", "c", "d", "e", "f", "g", "h", "i", "j", "k", "l", "m",
                "n", "o", "p", "q", "r", "s", "t", "u", "v", "w", "x", "y", "z">>

\* one character of str.lower()
LowerChar(c) ==
    IF \E i \in 1..Len(UpperAlpha) : UpperAlpha[i] = c
    THEN LowerAlpha[CHOOSE i \in 1..Len(UpperAlpha) : UpperAlpha[i] = c]
    ELSE c

\* str.lower()
lower(s) == [i \in 1..Len(s) |-> LowerChar(s[i])]

IsSpace(c) == c \in {" ", "\t", "\n", "\r"}

\* str.strip()
strip(s) ==
    LET keep == {i \in 1..Len(s) : ~IsSpace(s[i])}
    IN  IF keep = {} THEN <<>>
        ELSE SubSeq(s, CHOOSE i \in keep : \A j \in keep : i <= j,
                       CHOOSE i \in keep : \A j \in keep : j <= i)

\* str.startswith(p)
startswith(s, p) == Len(p) <= Len(s) /\ SubSeq(s, 1, Len(p)) = p

\* str.split(sep) for a one-character separator
RECURSIVE split(_, _)
split(s, sep) ==
    IF \E i \in 1..Len(s) : s[i] = sep
    THEN LET i == CHOOSE k \in 1..Len(s) :
                      s[k] = sep /\ \A j \in 1..(k - 1) : s[j] # sep
         IN  <<SubSeq(s, 1, i - 1)>> \o split(SubSeq(s, i + 1, Len(s)), sep)
    ELSE <<s>>

\* sep.join(parts)
RECURSIVE join(_, _)
join(parts, sep) ==
    IF Len(parts) = 0 THEN <<>>
    ELSE IF Len(parts) = 1 THEN parts[1]
    ELSE parts[1] \o sep \o join(Tail(parts), sep)

\* ------------------------------------------------------------------------
\* The gate of /proxy and /resource: scheme check, then whitelist check
\* ------------------------------------------------------------------------
\* ABS_URL_RE = re.compile(r"^https?://", re.IGNORECASE), used with .match(url)
ABS_URL_RE(url) ==
    \/ startswith(lower(url), S_http_slash)
    \/ startswith(lower(url), S_https_slash)

\* The process environment holds PROXY_WHITELIST or does not:
\* [set |-> BOOLEAN, val |-> string].  os.getenv("PROXY_WHITELIST", "")
getenv(environ) == IF environ.set THEN environ.val ELSE <<>>

\* allowed = [h.strip().lower() for h in whitelist.split(",") if h.strip()]
allowed_list(whitelist) ==
    LET parts == split(whitelist, ",")
        kept  == SelectSeq(parts, LAMBDA h : strip(h) # <<>>)
    IN  [i \in 1..Len(kept) |-> lower(strip(kept[i]))]

\* h if h.startswith("http") else f"https://{h}"
rule_prefix(h) == IF startswith(h, S_http) THEN h ELSE S_https_slash \o h

\* a plausible slip: the whitelist is tested first, the scheme after it
proxy_gate_whitelist_first(url, environ) ==
    LET whitelist == strip(getenv(environ))
        allowed   == allowed_list(whitelist)
    IN  IF whitelist # <<>>
           /\ ~\E i \in 1..Len(allowed) :
                   startswith(lower(url), rule_prefix(allowed[i]))
        THEN 403
        ELSE IF ~ABS_URL_RE(url) THEN 400 ELSE 0

\* Lines 213-221 of proxy(): 400, 403, or 0 when the request may go on.
proxy_gate(url, environ) ==
    IF ~ABS_URL_RE(url) THEN 400
    ELSE LET whitelist == strip(getenv(environ))
         IN  IF whitelist # <<>>
             THEN LET allowed == allowed_list(whitelist)
                  IN  IF ~\E i \in 1..Len(allowed) :
                              startswith(lower(url), rule_prefix(allowed[i]))
                      THEN 403
                      ELSE 0
             ELSE 0

\* Lines 249-257 of resource(): the same two checks, written out again.
resource_gate(url, environ) ==
    IF ~ABS_URL_RE(url) THEN 400
    ELSE LET whitelist == strip(getenv(environ))
         IN  IF whitelist # <<>>
             THEN LET allowed == allowed_list(whitelist)
                  IN  IF ~\E i \in 1..Len(allowed) :
                              startswith(lower(url), rule_prefix(allowed[i]))
                      THEN 403
                      ELSE 0
             ELSE 0

\* ------------------------------------------------------------------------
\* More string operations, used by the handlers
\* ------------------------------------------------------------------------
S_text_html == <<"t", "e", "x", "t", "/", "h", "t", "m", "l">>  \* "text/html"
S_text_css == <<"t", "e", "x", "t", "/", "c", "s", "s">>  \* "text/css"
S_dot_css == <<".", "c", "s", "s">>  \* ".css"
S_octet == <<"a", "p", "p", "l", "i", "c", "a", "t", "i", "o", "n", "/", "o", "c", "t", "e", "t", "-", "s", "t", "r", "e", "a", "m">>  \* "application/octet-stream"
H_html == <<"T", "e", "x", "t", "/", "H", "T", "M", "L">>  \* "Text/HTML"
H_png == <<"i", "m", "a", "g", "e", "/", "p", "n", "g">>  \* "image/png"
H_css == <<"T", "e", "x", "t", "/", "C", "S", "S", " ", ";", "q">>  \* "Text/CSS ;q"
U_css == <<"h", "t", "t", "p", ":", "/", "/", "b", "/", "x", ".", "C", "S", "S">>  \* "http://b/x.CSS"

\* sub in s
contains(s, sub) ==
    \E i \in 0..(Len(s) - Len(sub)) : SubSeq(s, i + 1, i + Len(sub)) = sub

\* str.endswith(p)
endswith(s, p) ==
    Len(p) <= Len(s) /\ SubSeq(s, Len(s) - Len(p) + 1, Len(s)) = p

\* first index of a character of cs in s at or after position from, else Len(s)+1
FirstOf(s, cs, from) ==
    IF \E i \in from..Len(s) : s[i] \in cs
    THEN CHOOSE i \in from..Len(s) :
             s[i] \in cs /\ \A j \in from..(i - 1) : s[j] \notin cs
    ELSE Len(s) + 1

\* urlparse(url).path of a scheme://netloc/path?query#fragment url
url_path(url) ==
    LET colon == FirstOf(url, {":"}, 1)
        start == FirstOf(url, {"/", "?", "#"}, colon + 3)
        stop  == FirstOf(url, {"?", "#"}, start)
    IN  SubSeq(url, start, stop - 1)

\* ------------------------------------------------------------------------
\* State
\* ------------------------------------------------------------------------
VARIABLES
    environ,         \* the PROXY_WHITELIST entry of the process environment
    PROXY_CACHE,     \* url -> sanitized html
    RESOURCE_CACHE,  \* url -> <<content, content type>>
    req,             \* the requests: position in the handler, locals, response
    reset_pc,        \* position of the reset_session call in progress
    since,           \* history: the requests that acted since the last reset
                     \* that ran with no request in flight; 0 marks "other"
    fpc, farg, fres  \* argument and result of a function applied on its own

vars == <<environ, PROXY_CACHE, RESOURCE_CACHE, req, reset_pc, since, fpc, farg, fres>>
server_vars == <<environ, PROXY_CACHE, RESOURCE_CACHE, req, reset_pc, since>>
fun_vars == <<fpc, farg, fres>>

Req == 1..MaxReq

\* 5 * 1024 * 1024, the admission limit of RESOURCE_CACHE
MAX_CACHED_BYTES == 5 * 1024 * 1024

Unset == [set |-> FALSE, val |-> <<>>]
EnvOf(w) == [set |-> TRUE, val |-> w]

\* the urls requested and the whitelist settings of the server model
ReqUrls == {U_ftp, U_A, U_css}
Environs == {Unset, EnvOf(S_a)}

\* dict operations
Put(d, k, v) == [x \in (DOMAIN d) \cup {k} |-> IF x = k THEN v ELSE d[x]]
EmptyDict == <<>>

NoValue == [none |-> TRUE]
IdleReq == [pc |-> "idle", kind |-> "none", url |-> <<>>, nfetch |-> 0,
            local |-> NoValue, status |-> 0, resp |-> NoValue]

InFlight(r) == req[r].pc \in {"lookup", "hit", "fetch", "store"}

\* a request step by r, recorded in the history variable
Acted(r) ==
    since' = IF 0 \in since \/ reset_pc # "idle" THEN {0} ELSE since \cup {r}

\* HTTPException(status_code, detail) ends the request
Raise(r, code, detail) ==
    [req[r] EXCEPT !.pc = "done", !.status = code, !.resp = [detail |-> detail]]

\* a returned value ends the request with 200
Return(r, value) ==
    [req[r] EXCEPT !.pc = "done", !.status = 200, !.resp = value]

\* ------------------------------------------------------------------------
\* Upstream: what requests.get can produce for a url
\* ------------------------------------------------------------------------
FetchErrors == {"404 Client Error"}

\* a page: final url after redirects, Content-Type header (or none), the text
PageResponses(url) ==
    [ok : {TRUE}, final : {url, U_r}, ctype : {H_html},
     text : [v : 1..MaxVersion, doctype : {FALSE}]]
    \cup [ok : {TRUE}, final : {url}, ctype : {H_png},
          text : [v : {1}, doctype : BOOLEAN]]
    \cup [ok : {FALSE}, err : FetchErrors]

\* a resource: Content-Type header (set or not), the bytes (their length, and
\* the length of the text the css rewrite makes of them)
ResourceResponses ==
    [ok : {TRUE}, ctype : {[set |-> FALSE, val |-> <<>>], EnvOf(H_css), EnvOf(H_png)},
     content : [v : {1},
                len : {MAX_CACHED_BYTES, MAX_CACHED_BYTES + 1},
                csslen : {MAX_CACHED_BYTES, MAX_CACHED_BYTES + 1}]]
    \cup [ok : {FALSE}, err : FetchErrors]

\* ------------------------------------------------------------------------
\* GET /proxy
\* ------------------------------------------------------------------------
\* lines 236-241: the html made of a fetched page
proxy_html(resp) ==
    LET content_type == lower(resp.ctype)
    IN  IF ~contains(content_type, S_text_html) /\ ~resp.text.doctype
        THEN [kind |-> "placeholder", content_type |-> content_type]
        ELSE [kind |-> "sanitized", text |-> resp.text, base_url |-> resp.final]

\* lines 223-224: the value returned on a cache hit
proxy_hit_value(url, cached) == [url |-> url, html |-> cached]

\* line 244: the value returned after a fetch
proxy_miss_value(url, local) == [url |-> local.final, html |-> local.html]

\* a plausible slip: the cache is consulted before the whitelist
proxy_arrive_cache_first(r, url) ==
    LET code == proxy_gate(url, environ)
        me   == [req[r] EXCEPT !.kind = "proxy", !.url = url]
    IN  IF url \in DOMAIN PROXY_CACHE
        THEN [me EXCEPT !.pc = "done", !.status = 200,
                 !.resp = proxy_hit_value(url, PROXY_CACHE[url])]
        ELSE IF code = 400
        THEN [me EXCEPT !.pc = "done", !.status = 400,
                 !.resp = [detail |-> "URL must start with http:// or https://"]]
        ELSE IF code = 403
        THEN [me EXCEPT !.pc = "done", !.status = 403,
                 !.resp = [detail |-> "URL not allowed by whitelist"]]
        ELSE [me EXCEPT !.pc = "lookup"]

\* lines 213-221: the request as it leaves the scheme and whitelist checks
proxy_arrive(r, url) ==
    LET code == proxy_gate(url, environ)
        me   == [req[r] EXCEPT !.kind = "proxy", !.url = url]
    IN  IF code = 400
        THEN [me EXCEPT !.pc = "done", !.status = 400,
                 !.resp = [detail |-> "URL must start with http:// or https://"]]
        ELSE IF code = 403
        THEN [me EXCEPT !.pc = "done", !.status = 403,
                 !.resp = [detail |-> "URL not allowed by whitelist"]]
        ELSE [me EXCEPT !.pc = "lookup"]

\* lines 211-221: the request arrives; scheme and whitelist are checked
ProxyStart(r, url) ==
    /\ req[r].pc = "idle"
    /\ \A q \in Req : q < r => req[q].pc # "idle"
    /\ req' = [req EXCEPT ![r] = proxy_arrive(r, url)]
    /\ Acted(r)
    /\ UNCHANGED <<environ, PROXY_CACHE, RESOURCE_CACHE, reset_pc, fun_vars>>

\* line 223: if url in PROXY_CACHE
ProxyLookup(r) ==
    /\ req[r].pc = "lookup" /\ req[r].kind = "proxy"
    /\ req' = [req EXCEPT ![r].pc =
                  IF req[r].url \in DOMAIN PROXY_CACHE THEN "hit" ELSE "fetch"]
    /\ Acted(r)
    /\ UNCHANGED <<environ, PROXY_CACHE, RESOURCE_CACHE, reset_pc, fun_vars>>

\* line 224: return {"url": url, "html": PROXY_CACHE[url]}
ProxyHit(r) ==
    /\ req[r].pc = "hit" /\ req[r].kind = "proxy"
    /\ req' = [req EXCEPT ![r] =
                  IF req[r].url \in DOMAIN PROXY_CACHE
                  THEN Return(r, proxy_hit_value(req[r].url, PROXY_CACHE[req[r].url]))
                  ELSE Raise(r, 500, "KeyError")]
    /\ Acted(r)
    /\ UNCHANGED <<environ, PROXY_CACHE, RESOURCE_CACHE, reset_pc, fun_vars>>

\* a plausible slip: a failed fetch is tried once more before giving up
proxy_fetched_retry(r, resp) ==
    IF ~resp.ok
    THEN [Raise(r, 502, <<"Upstream fetch failed: ", resp.err>>)
             EXCEPT !.nfetch = req[r].nfetch + 2]
    ELSE [req[r] EXCEPT !.pc = "store", !.nfetch = req[r].nfetch + 1,
                        !.local = [final |-> resp.final, html |-> proxy_html(resp)]]

\* lines 226-241: the one requests.get, raise_for_status, and the html
proxy_fetched(r, resp) ==
    IF ~resp.ok
    THEN [Raise(r, 502, <<"Upstream fetch failed: ", resp.err>>)
             EXCEPT !.nfetch = req[r].nfetch + 1]
    ELSE [req[r] EXCEPT !.pc = "store", !.nfetch = req[r].nfetch + 1,
                        !.local = [final |-> resp.final, html |-> proxy_html(resp)]]

ProxyFetch(r) ==
    /\ req[r].pc = "fetch" /\ req[r].kind = "proxy"
    /\ \E resp \in PageResponses(req[r].url) :
           req' = [req EXCEPT ![r] = proxy_fetched(r, resp)]
    /\ Acted(r)
    /\ UNCHANGED <<environ, PROXY_CACHE, RESOURCE_CACHE, reset_pc, fun_vars>>

\* lines 243-244: PROXY_CACHE[url] = html; return {"url": resp.url, "html": html}
ProxyStore(r) ==
    /\ req[r].pc = "store" /\ req[r].kind = "proxy"
    /\ PROXY_CACHE' = Put(PROXY_CACHE, req[r].url, req[r].local.html)
    /\ req' = [req EXCEPT ![r] = Return(r, proxy_miss_value(req[r].url, req[r].local))]
    /\ Acted(r)
    /\ UNCHANGED <<environ, RESOURCE_CACHE, reset_pc, fun_vars>>

\* ------------------------------------------------------------------------
\* GET /resource
\* ------------------------------------------------------------------------
\* line 274: (r.headers.get("Content-Type") or "application/octet-stream")
\*           .split(";")[0].strip().lower()
resource_content_type(header) ==
    LET h == IF header.set /\ header.val # <<>> THEN header.val ELSE S_octet
    IN  lower(strip(split(h, ";")[1]))

\* line 279: the css test
is_css(url, content_type) ==
    \/ contains(content_type, S_text_css)
    \/ endswith(lower(url_path(url)), S_dot_css)

\* lines 274-295: content and content type served for a fetched resource
resource_body(url, resp) ==
    LET content_type == resource_content_type(resp.ctype)
    IN  IF is_css(url, content_type)
        THEN [content |-> [text |-> <<"css_rewritten", resp.content.v, url>>,
                           len |-> resp.content.csslen],
              content_type |-> S_text_css]
        ELSE [content |-> [text |-> <<"raw", resp.content.v>>,
                           len |-> resp.content.len],
              content_type |-> content_type]

\* a plausible slip: every resource is cached, whatever its size
admitted_any_size(body) == TRUE

\* line 298: if len(content) <= 5 * 1024 * 1024
admitted(body) == body.content.len <= MAX_CACHED_BYTES

\* lines 249-257: the request as it leaves the scheme and whitelist checks
resource_arrive(r, url) ==
    LET code == resource_gate(url, environ)
        me   == [req[r] EXCEPT !.kind = "resource", !.url = url]
    IN  IF code = 400
        THEN [me EXCEPT !.pc = "done", !.status = 400,
                 !.resp = [detail |-> "URL must start with http:// or https://"]]
        ELSE IF code = 403
        THEN [me EXCEPT !.pc = "done", !.status = 403,
                 !.resp = [detail |-> "URL not allowed by whitelist"]]
        ELSE [me EXCEPT !.pc = "lookup"]

\* lines 247-257: the request arrives; scheme and whitelist are checked
ResourceStart(r, url) ==
    /\ req[r].pc = "idle"
    /\ \A q \in Req : q < r => req[q].pc # "idle"
    /\ req' = [req EXCEPT ![r] = resource_arrive(r, url)]
    /\ Acted(r)
    /\ UNCHANGED <<environ, PROXY_CACHE, RESOURCE_CACHE, reset_pc, fun_vars>>

\* line 259: if url in RESOURCE_CACHE
ResourceLookup(r) ==
    /\ req[r].pc = "lookup" /\ req[r].kind = "resource"
    /\ req' = [req EXCEPT ![r].pc =
                  IF req[r].url \in DOMAIN RESOURCE_CACHE THEN "hit" ELSE "fetch"]
    /\ Acted(r)
    /\ UNCHANGED <<environ, PROXY_CACHE, RESOURCE_CACHE, reset_pc, fun_vars>>

\* lines 260-261: content, ctype = RESOURCE_CACHE[url]; return Response(...)
ResourceHit(r) ==
    /\ req[r].pc = "hit" /\ req[r].kind = "resource"
    /\ req' = [req EXCEPT ![r] =
                  IF req[r].url \in DOMAIN RESOURCE_CACHE
                  THEN Return(r, RESOURCE_CACHE[req[r].url])
                  ELSE Raise(r, 500, "KeyError")]
    /\ Acted(r)
    /\ UNCHANGED <<environ, PROXY_CACHE, RESOURCE_CACHE, reset_pc, fun_vars>>

\* lines 263-295: the one requests.get, raise_for_status, and the body
resource_fetched(r, resp) ==
    IF ~resp.ok
    THEN [Raise(r, 502, <<"Resource fetch failed: ", resp.err>>)
             EXCEPT !.nfetch = req[r].nfetch + 1]
    ELSE [req[r] EXCEPT !.pc = "store", !.nfetch = req[r].nfetch + 1,
                        !.local = resource_body(req[r].url, resp)]

ResourceFetch(r) ==
    /\ req[r].pc = "fetch" /\ req[r].kind = "resource"
    /\ \E resp \in ResourceResponses :
           req' = [req EXCEPT ![r] = resource_fetched(r, resp)]
    /\ Acted(r)
    /\ UNCHANGED <<environ, PROXY_CACHE, RESOURCE_CACHE, reset_pc, fun_vars>>

\* lines 298-301: the admission test, the write, the response
ResourceStore(r) ==
    /\ req[r].pc = "store" /\ req[r].kind = "resource"
    /\ RESOURCE_CACHE' = IF admitted(req[r].local)
                         THEN Put(RESOURCE_CACHE, req[r].url, req[r].local)
                         ELSE RESOURCE_CACHE
    /\ req' = [req EXCEPT ![r] = Return(r, req[r].local)]
    /\ Acted(r)
    /\ UNCHANGED <<environ, PROXY_CACHE, reset_pc, fun_vars>>

\* ------------------------------------------------------------------------
\* POST /session/reset
\* ------------------------------------------------------------------------
\* a plausible slip: the page cache is left as it is
pages_not_cleared == PROXY_CACHE

\* line 306: the page cache after PROXY_CACHE.clear()
pages_after_clear == EmptyDict

\* line 307: the resource cache after RESOURCE_CACHE.clear()
resources_after_clear == EmptyDict

\* lines 304-306: the call arrives; PROXY_CACHE.clear()
ResetClearPages ==
    /\ reset_pc = "idle"
    /\ PROXY_CACHE' = pages_after_clear
    /\ reset_pc' = "pages_cleared"
    /\ since' = IF \E r \in Req : InFlight(r) THEN {0} ELSE {}
    /\ UNCHANGED <<environ, RESOURCE_CACHE, req, fun_vars>>

\* lines 307-308: RESOURCE_CACHE.clear(); return {"ok": True, ...}
ResetClearResources ==
    /\ reset_pc = "pages_cleared"
    /\ RESOURCE_CACHE' = resources_after_clear
    /\ reset_pc' = "idle"
    /\ UNCHANGED <<environ, PROXY_CACHE, req, since, fun_vars>>

\* ------------------------------------------------------------------------
\* The environment: PROXY_WHITELIST is set, changed or unset between calls
\* ------------------------------------------------------------------------
SetWhitelist(e) ==
    /\ e # environ
    /\ environ' = e
    /\ UNCHANGED <<PROXY_CACHE, RESOURCE_CACHE, req, reset_pc, since, fun_vars>>

\* ------------------------------------------------------------------------
\* The server
\* ------------------------------------------------------------------------
ServerInit ==
    /\ environ \in Environs
    /\ PROXY_CACHE = EmptyDict
    /\ RESOURCE_CACHE = EmptyDict
    /\ req = [r \in Req |-> IdleReq]
    /\ reset_pc = "idle"
    /\ since = {0}

FunIdle ==
    /\ fpc = "unused"
    /\ farg = NoValue
    /\ fres = NoValue

Init == ServerInit /\ FunIdle

Next ==
    \/ \E r \in Req, url \in ReqUrls : ProxyStart(r, url)
    \/ \E r \in Req : ProxyLookup(r)
    \/ \E r \in Req : ProxyHit(r)
    \/ \E r \in Req : ProxyFetch(r)
    \/ \E r \in Req : ProxyStore(r)
    \/ \E r \in Req, url \in ReqUrls : ResourceStart(r, url)
    \/ \E r \in Req : ResourceLookup(r)
    \/ \E r \in Req : ResourceHit(r)
    \/ \E r \in Req : ResourceFetch(r)
    \/ \E r \in Req : ResourceStore(r)
    \/ ResetClearPages
    \/ ResetClearResources
    \/ \E e \in Environs : SetWhitelist(e)

Spec == Init /\ [][Next]_vars

\* ------------------------------------------------------------------------
\* The gate on its own: urls and whitelist values drawn from generated sets
\* ------------------------------------------------------------------------
GateSchemes == {S_http_slash, S_https_slash, S_HTTPS_slash, S_ftp_slash}
GateHosts == {S_a, S_b, S_e, S_httpd}
GatePaths == {S_none, S_slash, S_slash_a}
GateUrls == {sc \o h \o pa : sc \in GateSchemes, h \in GateHosts, pa \in GatePaths}

\* entries of a whitelist value: none, blank, bare hosts, scheme-qualified prefixes
GateEntries == {S_none, S_space, S_a, S_A_padded, S_httpd, S_http_b, S_HTTP_B, U_a}
GateEnvirons ==
    {Unset} \cup
    {EnvOf(join(es, <<",">>)) :
        es \in UNION {[1..n -> GateEntries] : n \in 0..MaxRules}}

GateInit ==
    /\ ServerInit /\ environ = Unset
    /\ fpc = "gate"
    /\ farg \in [url : GateUrls, environ : GateEnvirons]
    /\ fres = [proxy |-> -1, resource |-> -1]

ApplyProxyGate ==
    /\ fpc = "gate" /\ fres.proxy = -1
    /\ fres' = [fres EXCEPT !.proxy = proxy_gate(farg.url, farg.environ)]
    /\ UNCHANGED <<server_vars, fpc, farg>>

ApplyResourceGate ==
    /\ fpc = "gate" /\ fres.resource = -1
    /\ fres' = [fres EXCEPT !.resource = resource_gate(farg.url, farg.environ)]
    /\ UNCHANGED <<server_vars, fpc, farg>>

GateNext == ApplyProxyGate \/ ApplyResourceGate

GateSpec == GateInit /\ [][GateNext]_vars

\* ------------------------------------------------------------------------
\* Documents
\* ------------------------------------------------------------------------
\* A document text is a sequence of elements in document order, each
\* [tag, attrs, parent]: the tag name as written, the attributes as written
\* (a sequence of <<name, value>>) and the index of the enclosing element
\* (0 at top level).  The parsed tree keeps the indices: each element is
\* [tag, attrs, parent, gone], attrs a dict from attribute name to value
\* and gone set by decompose().
T_script == <<"s", "c", "r", "i", "p", "t">>  \* "script"
T_SCRIPT == <<"S", "C", "R", "I", "P", "T">>  \* "SCRIPT"
T_iframe == <<"i", "f", "r", "a", "m", "e">>  \* "iframe"
T_object == <<"o", "b", "j", "e", "c", "t">>  \* "object"
T_embed == <<"e", "m", "b", "e", "d">>  \* "embed"
T_meta == <<"m", "e", "t", "a">>  \* "meta"
T_link == <<"l", "i", "n", "k">>  \* "link"
T_img == <<"i", "m", "g">>  \* "img"
T_video == <<"v", "i", "d", "e", "o">>  \* "video"
T_audio == <<"a", "u", "d", "i", "o">>  \* "audio"
T_source == <<"s", "o", "u", "r", "c", "e">>  \* "source"
T_track == <<"t", "r", "a", "c", "k">>  \* "track"
T_a == <<"a">>  \* "a"
T_form == <<"f", "o", "r", "m">>  \* "form"
T_div == <<"d", "i", "v">>  \* "div"
T_p == <<"p">>  \* "p"
T_style == <<"s", "t", "y", "l", "e">>  \* "style"
A_on == <<"o", "n">>  \* "on"
A_onclick == <<"o", "n", "c", "l", "i", "c", "k">>  \* "onclick"
A_ONCLICK == <<"O", "N", "C", "L", "I", "C", "K">>  \* "ONCLICK"
A_onload == <<"o", "n", "l", "o", "a", "d">>  \* "onload"
A_onerror == <<"o", "n", "e", "r", "r", "o", "r">>  \* "onerror"
A_onsubmit == <<"o", "n", "s", "u", "b", "m", "i", "t">>  \* "onsubmit"
A_title == <<"t", "i", "t", "l", "e">>  \* "title"
A_http_equiv == <<"h", "t", "t", "p", "-", "e", "q", "u", "i", "v">>  \* "http-equiv"
A_HTTP_EQUIV == <<"H", "T", "T", "P", "-", "E", "Q", "U", "I", "V">>  \* "HTTP-EQUIV"
A_content == <<"c", "o", "n", "t", "e", "n", "t">>  \* "content"
A_rel == <<"r", "e", "l">>  \* "rel"
A_href == <<"h", "r", "e", "f">>  \* "href"
A_src == <<"s", "r", "c">>  \* "src"
A_data_src == <<"d", "a", "t", "a", "-", "s", "r", "c">>  \* "data-src"
A_srcset == <<"s", "r", "c", "s", "e", "t">>  \* "srcset"
A_integrity == <<"i", "n", "t", "e", "g", "r", "i", "t", "y">>  \* "integrity"
A_crossorigin == <<"c", "r", "o", "s", "s", "o", "r", "i", "g", "i", "n">>  \* "crossorigin"
A_referrerpolicy == <<"r", "e", "f", "e", "r", "r", "e", "r", "p", "o", "l", "i", "c", "y">>  \* "referrerpolicy"
A_loading == <<"l", "o", "a", "d", "i", "n", "g">>  \* "loading"
A_decoding == <<"d", "e", "c", "o", "d", "i", "n", "g">>  \* "decoding"
A_data_proxy_href == <<"d", "a", "t", "a", "-", "p", "r", "o", "x", "y", "-", "h", "r", "e", "f">>  \* "data-proxy-href"
A_target == <<"t", "a", "r", "g", "e", "t">>  \* "target"
A_action == <<"a", "c", "t", "i", "o", "n">>  \* "action"
A_data_proxy_action == <<"d", "a", "t", "a", "-", "p", "r", "o", "x", "y", "-", "a", "c", "t", "i", "o", "n">>  \* "data-proxy-action"
A_method == <<"m", "e", "t", "h", "o", "d">>  \* "method"
A_enctype == <<"e", "n", "c", "t", "y", "p", "e">>  \* "enctype"
V_refresh == <<"r", "e", "f", "r", "e", "s", "h">>  \* "refresh"
V_Refresh == <<"R", "e", "f", "r", "e", "s", "h">>  \* "Refresh"
V_stylesheet == <<"s", "t", "y", "l", "e", "s", "h", "e", "e", "t">>  \* "stylesheet"
V_preconnect == <<"p", "r", "e", "c", "o", "n", "n", "e", "c", "t">>  \* "preconnect"
V_dns_prefetch == <<"d", "n", "s", "-", "p", "r", "e", "f", "e", "t", "c", "h">>  \* "dns-prefetch"
V_prefetch == <<"p", "r", "e", "f", "e", "t", "c", "h">>  \* "prefetch"
V_preload == <<"p", "r", "e", "l", "o", "a", "d">>  \* "preload"
V_hash == <<"#">>  \* "#"
V_self == <<"_", "s", "e", "l", "f">>  \* "_self"
V_nofollow == <<"n", "o", "f", "o", "l", "l", "o", "w", " ", "n", "o", "o", "p", "e", "n", "e", "r">>  \* "nofollow noopener"
V_get == <<"g", "e", "t">>  \* "get"
V_POST == <<"P", "O", "S", "T">>  \* "POST"
V_x == <<"x">>  \* "x"
V_slash_x == <<"/", "x">>  \* "/x"
V_abs == <<"h", "t", "t", "p", ":", "/", "/", "e", "/", "x">>  \* "http://e/x"
S_resource_url == <<"/", "r", "e", "s", "o", "u", "r", "c", "e", "?", "u", "r", "l", "=">>  \* "/resource?url="
B_base == <<"h", "t", "t", "p", "s", ":", "/", "/", "a", "/", "d", "/", "i">>  \* "https://a/d/i"

\* elements html.parser never gives children: void elements, and script and
\* style, whose content is character data
ChildlessTags ==
    {T_meta, T_link, T_img, T_embed, T_source, T_track, T_script, T_style}

\* whitespace-separated tokens of s
RECURSIVE tokens(_)
tokens(s) ==
    LET t == strip(s)
    IN  IF t = <<>> THEN <<>>
        ELSE LET stop == FirstOf(t, {" ", "\t", "\n", "\r"}, 1)
             IN  <<SubSeq(t, 1, stop - 1)>> \o tokens(SubSeq(t, stop, Len(t)))

\* attributes bs4 holds as a list of tokens: rel of a and link
is_list_attr(tag, name) == name = A_rel /\ tag \in {T_a, T_link}

\* dict operations on attributes
Get(attrs, name) == IF name \in DOMAIN attrs THEN attrs[name] ELSE <<>>
Del(attrs, names) == [n \in (DOMAIN attrs) \ names |-> attrs[n]]

\* the attribute dict of a start tag: names lowercased, the last of several
\* values kept, list attributes split into tokens (written here joined by
\* one space, as they are serialized)
parse_attrs(tag, raw) ==
    LET names == {lower(raw[i][1]) : i \in 1..Len(raw)}
        last(n) == CHOOSE i \in 1..Len(raw) :
                       /\ lower(raw[i][1]) = n
                       /\ \A j \in 1..Len(raw) : lower(raw[j][1]) = n => j <= i
    IN  [n \in names |->
            IF is_list_attr(tag, n)
            THEN join(tokens(raw[last(n)][2]), <<" ">>)
            ELSE raw[last(n)][2]]

\* line 64: BeautifulSoup(html, "html.parser")
parse(html) ==
    [i \in 1..Len(html) |->
        [tag |-> lower(html[i].tag),
         attrs |-> parse_attrs(lower(html[i].tag), html[i].attrs),
         parent |-> html[i].parent,
         gone |-> FALSE]]

\* i is j or encloses j
RECURSIVE encloses(_, _, _)
encloses(soup, i, j) ==
    IF j = i THEN TRUE
    ELSE IF j = 0 THEN FALSE
    ELSE encloses(soup, i, soup[j].parent)

\* soup.find_all(tags)
find_all(soup, tags) ==
    {i \in 1..Len(soup) : ~soup[i].gone /\ soup[i].tag \in tags}

\* tag.decompose() for every element of which: the elements and all they enclose go
decompose(soup, which) ==
    [j \in 1..Len(soup) |->
        IF \E i \in which : encloses(soup, i, j)
        THEN [soup[j] EXCEPT !.gone = TRUE]
        ELSE soup[j]]

\* ------------------------------------------------------------------------
\* resolve, resource_proxy_path
\* ------------------------------------------------------------------------
SchemeChars ==
    {LowerAlpha[i] : i \in 1..26} \cup {UpperAlpha[i] : i \in 1..26}
        \cup {"0", "1", "2", "3", "4", "5", "6", "7", "8", "9", "+", "-", "."}

\* url begins with scheme:
has_scheme(url) ==
    LET colon == FirstOf(url, {":"}, 1)
    IN  /\ 1 < colon /\ colon <= Len(url)
        /\ \A i \in 1..(colon - 1) : url[i] \in SchemeChars

\* urljoin(base, url) for an http(s) base and a non-empty url without dot
\* segments: an absolute url stands, //host takes the base's scheme, /path
\* the base's scheme and host, ?query and #fragment the base up to there,
\* and anything else replaces the last path segment of the base
urljoin(base, url) ==
    LET colon  == FirstOf(base, {":"}, 1)
        pstart == FirstOf(base, {"/", "?", "#"}, colon + 3)
        qstart == FirstOf(base, {"?", "#"}, pstart)
        fstart == FirstOf(base, {"#"}, pstart)
        origin == SubSeq(base, 1, pstart - 1)
        path   == SubSeq(base, pstart, qstart - 1)
        slashes == {i \in 1..Len(path) : path[i] = "/"}
        dir    == IF slashes = {} THEN <<"/">>
                  ELSE SubSeq(path, 1, CHOOSE i \in slashes : \A j \in slashes : j <= i)
    IN  IF has_scheme(url) THEN url
        ELSE IF startswith(url, <<"/", "/">>) THEN SubSeq(base, 1, colon) \o url
        ELSE IF url[1] = "/" THEN origin \o url
        ELSE IF url[1] = "?" THEN SubSeq(base, 1, qstart - 1) \o url
        ELSE IF url[1] = "#" THEN SubSeq(base, 1, fstart - 1) \o url
        ELSE origin \o dir \o url

\* lines 43-52: None is written <<>>; every caller tests the result for truth
resolve(base, link) ==
    IF link = <<>> THEN <<>>
    ELSE IF strip(link) = <<>> THEN <<>>
    ELSE urljoin(base, strip(link))

\* requests.utils.quote(s, safe=''): letters, digits and _.-~ stand, every
\* other character becomes %XX
QuoteSafe ==
    {LowerAlpha[i] : i \in 1..26} \cup {UpperAlpha[i] : i \in 1..26}
        \cup {"0", "1", "2", "3", "4", "5", "6", "7", "8", "9", "_", ".", "-", "~"}
QuoteChars == <<" ", "\"", "#", "%", "&", "'", "(", ")", "+", ",", "/", ":", ";", "<", "=", ">", "?", "@">>
QuoteHex == << <<"2", "0">>, <<"2", "2">>, <<"2", "3">>, <<"2", "5">>, <<"2", "6">>,
               <<"2", "7">>, <<"2", "8">>, <<"2", "9">>, <<"2", "B">>, <<"2", "C">>,
               <<"2", "F">>, <<"3", "A">>, <<"3", "B">>, <<"3", "C">>, <<"3", "D">>,
               <<"3", "E">>, <<"3", "F">>, <<"4", "0">> >>

RECURSIVE quote(_)
quote(s) ==
    IF s = <<>> THEN <<>>
    ELSE LET c == s[1]
             q == IF c \in QuoteSafe THEN <<c>>
                  ELSE <<"%">> \o QuoteHex[CHOOSE i \in 1..Len(QuoteChars) : QuoteChars[i] = c]
         IN  q \o quote(Tail(s))

\* lines 55-57
resource_proxy_path(absolute_url) == S_resource_url \o quote(absolute_url)

\* ------------------------------------------------------------------------
\* sanitize_and_rewrite_html
\* ------------------------------------------------------------------------
\* lines 66-68: script, iframe, object and embed elements are decomposed
remove_active(soup) ==
    decompose(soup, find_all(soup, {T_script, T_iframe, T_object, T_embed}))

\* line 74: k.lower().startswith("on")
is_handler(k) == startswith(lower(k), A_on)

\* a plausible slip: the loop over the keys ends at the first handler it deletes
strip_handlers_first_only(soup) ==
    [i \in 1..Len(soup) |->
        LET handlers == {k \in DOMAIN soup[i].attrs : is_handler(k)}
        IN  IF soup[i].gone \/ handlers = {} THEN soup[i]
            ELSE [soup[i] EXCEPT !.attrs = Del(@, {CHOOSE k \in handlers : TRUE})]]

\* lines 70-75: inline event handlers are deleted from every element
strip_handlers(soup) ==
    [i \in 1..Len(soup) |->
        IF soup[i].gone THEN soup[i]
        ELSE [soup[i] EXCEPT !.attrs =
                 Del(@, {k \in DOMAIN soup[i].attrs : is_handler(k)})]]

\* a plausible slip: the value is compared as written
is_meta_refresh_as_written(attrs) == Get(attrs, A_http_equiv) = V_refresh

\* lines 79-80: meta.get("http-equiv", "").lower() == "refresh"
is_meta_refresh(attrs) == lower(Get(attrs, A_http_equiv)) = V_refresh

\* lines 77-81: meta refresh elements are decomposed
remove_meta_refresh(soup) ==
    decompose(soup, {i \in find_all(soup, {T_meta}) : is_meta_refresh(soup[i].attrs)})

HintRels == {V_preconnect, V_dns_prefetch, V_prefetch, V_preload}
LeakAttrs == {A_integrity, A_crossorigin, A_referrerpolicy}

\* lines 85-94: a link whose lowercased rel tokens include stylesheet
rewrite_stylesheet(attrs, base_url) ==
    LET abs_href == resolve(base_url, Get(attrs, A_href))
        a1 == IF abs_href # <<>>
              THEN Put(attrs, A_href, resource_proxy_path(abs_href))
              ELSE attrs
    IN  Del(a1, LeakAttrs)

\* line 86
is_stylesheet(attrs) ==
    LET rel == tokens(Get(attrs, A_rel))
    IN  \E i \in 1..Len(rel) : lower(rel[i]) = V_stylesheet

\* line 98: the rel tokens, as written, include a connection hint
is_hint(attrs) ==
    LET rel == tokens(Get(attrs, A_rel))
    IN  \E i \in 1..Len(rel) : rel[i] \in HintRels

\* lines 83-99: stylesheet links are rewritten, hint links decomposed
rewrite_links(soup, base_url) ==
    LET links == find_all(soup, {T_link})
        s1 == [i \in 1..Len(soup) |->
                  IF i \in links /\ is_stylesheet(soup[i].attrs)
                  THEN [soup[i] EXCEPT !.attrs = rewrite_stylesheet(@, base_url)]
                  ELSE soup[i]]
    IN  decompose(s1, {i \in links :
                          ~is_stylesheet(soup[i].attrs) /\ is_hint(soup[i].attrs)})

MediaTags == {T_img, T_video, T_audio, T_source, T_track}
MediaStripped ==
    {A_loading, A_decoding, A_referrerpolicy, A_integrity, A_crossorigin,
     A_srcset, A_data_src}

\* a plausible slip: the attributes are deleted under the test of abs_src
rewrite_media_attrs_strip_if_resolved(attrs, base_url) ==
    LET src == IF Get(attrs, A_src) # <<>> THEN Get(attrs, A_src)
               ELSE Get(attrs, A_data_src)
        abs_src == resolve(base_url, src)
    IN  IF abs_src # <<>>
        THEN Del(Put(attrs, A_src, resource_proxy_path(abs_src)), MediaStripped)
        ELSE attrs

\* lines 103-109: one media element
rewrite_media_attrs(attrs, base_url) ==
    LET src == IF Get(attrs, A_src) # <<>> THEN Get(attrs, A_src)
               ELSE Get(attrs, A_data_src)
        abs_src == resolve(base_url, src)
        a1 == IF abs_src # <<>>
              THEN Put(attrs, A_src, resource_proxy_path(abs_src))
              ELSE attrs
    IN  Del(a1, MediaStripped)

\* lines 101-109
rewrite_media(soup, base_url) ==
    [i \in 1..Len(soup) |->
        IF i \in find_all(soup, MediaTags)
        THEN [soup[i] EXCEPT !.attrs = rewrite_media_attrs(@, base_url)]
        ELSE soup[i]]

\* a plausible slip: target and rel are set under the test of abs_href
rewrite_anchor_attrs_only_resolved(attrs, base_url) ==
    LET abs_href == resolve(base_url, Get(attrs, A_href))
    IN  IF abs_href # <<>>
        THEN Put(Put(Put(Put(attrs, A_data_proxy_href, abs_href), A_href, V_hash),
                     A_target, V_self), A_rel, V_nofollow)
        ELSE attrs

\* lines 113-119: one anchor
rewrite_anchor_attrs(attrs, base_url) ==
    LET abs_href == resolve(base_url, Get(attrs, A_href))
        a1 == IF abs_href # <<>>
              THEN Put(Put(attrs, A_data_proxy_href, abs_href), A_href, V_hash)
              ELSE attrs
    IN  Put(Put(a1, A_target, V_self), A_rel, V_nofollow)

\* lines 111-119
rewrite_anchors(soup, base_url) ==
    [i \in 1..Len(soup) |->
        IF i \in find_all(soup, {T_a})
        THEN [soup[i] EXCEPT !.attrs = rewrite_anchor_attrs(@, base_url)]
        ELSE soup[i]]

\* lines 123-131: one form
rewrite_form_attrs(attrs, base_url) ==
    LET abs_action == resolve(base_url, Get(attrs, A_action))
        a1 == IF abs_action # <<>>
              THEN Put(attrs, A_data_proxy_action, abs_action)
              ELSE attrs
        a2 == Put(a1, A_action, V_hash)
        a3 == Put(a2, A_method,
                  lower(IF Get(attrs, A_method) # <<>> THEN Get(attrs, A_method) ELSE V_get))
    IN  Del(a3, {A_enctype})

\* lines 121-131
rewrite_forms(soup, base_url) ==
    [i \in 1..Len(soup) |->
        IF i \in find_all(soup, {T_form})
        THEN [soup[i] EXCEPT !.attrs = rewrite_form_attrs(@, base_url)]
        ELSE soup[i]]

\* lines 60-133: the tree that str(soup) serializes
sanitize_and_rewrite_html(html, base_url) ==
    LET s0 == parse(html)
        s1 == remove_active(s0)
        s2 == strip_handlers(s1)
        s3 == remove_meta_refresh(s2)
        s4 == rewrite_links(s3, base_url)
        s5 == rewrite_media(s4, base_url)
        s6 == rewrite_anchors(s5, base_url)
    IN  rewrite_forms(s6, base_url)

\* ------------------------------------------------------------------------
\* The sanitizer on its own: documents drawn from a generated set
\* ------------------------------------------------------------------------
Elem(tag, attrs) == [tag |-> tag, attrs |-> attrs]

\* the elements documents are made of
ElemKinds ==
    {Elem(T_script, <<>>),
     Elem(T_SCRIPT, << <<A_src, V_abs>>, <<A_onload, V_x>> >>),
     Elem(T_iframe, << <<A_src, V_abs>> >>),
     Elem(T_object, << <<A_onclick, V_x>> >>),
     Elem(T_embed, << <<A_src, V_slash_x>> >>),
     Elem(T_meta, << <<A_http_equiv, V_refresh>> >>),
     Elem(T_meta, << <<A_HTTP_EQUIV, V_Refresh>>, <<A_content, V_abs>> >>),
     Elem(T_meta, << <<A_http_equiv, V_x>>, <<A_onload, V_x>> >>),
     Elem(T_div, << <<A_onclick, V_x>>, <<A_title, V_x>> >>),
     Elem(T_div, << <<A_ONCLICK, V_x>>, <<A_on, V_x>>, <<A_onclick, V_abs>> >>),
     Elem(T_p, <<>>),
     Elem(T_a, << <<A_href, V_slash_x>>, <<A_onclick, V_x>> >>),
     Elem(T_img, << <<A_src, V_x>>, <<A_onerror, V_x>>, <<A_srcset, V_abs>> >>),
     Elem(T_link, << <<A_rel, V_preload>>, <<A_href, V_abs>>, <<A_onload, V_x>> >>),
     Elem(T_link, << <<A_rel, V_stylesheet>>, <<A_href, V_x>>, <<A_integrity, V_x>> >>),
     Elem(T_form, << <<A_action, V_slash_x>>, <<A_method, V_POST>>, <<A_onsubmit, V_x>>,
                     <<A_enctype, V_x>> >>)}

PlacedElems(n) ==
    {[tag |-> k.tag, attrs |-> k.attrs, parent |-> p] : k \in ElemKinds, p \in 0..(n - 1)}

\* the documents of at most MaxNodes elements: an element is enclosed by an
\* earlier one that can have children
Documents ==
    UNION {{d \in [1..n -> PlacedElems(n)] :
               \A i \in 1..n :
                   /\ d[i].parent < i
                   /\ d[i].parent # 0 => lower(d[d[i].parent].tag) \notin ChildlessTags}
           : n \in 0..MaxNodes}

SanInit ==
    /\ ServerInit /\ environ = Unset
    /\ fpc = "html"
    /\ farg \in [html : Documents, base_url : {B_base}]
    /\ fres = NoValue

Sanitize ==
    /\ fpc = "html"
    /\ fres' = sanitize_and_rewrite_html(farg.html, farg.base_url)
    /\ fpc' = "sanitized"
    /\ UNCHANGED <<server_vars, farg>>

SanNext == Sanitize

SanSpec == SanInit /\ [][SanNext]_vars

\* ------------------------------------------------------------------------
\* The sanitizer applied to a document and again to its own output
\* ------------------------------------------------------------------------
A_poster == <<"p", "o", "s", "t", "e", "r">>  \* "poster"
V_icon == <<"i", "c", "o", "n">>  \* "icon"
V_Stylesheet == <<"S", "t", "y", "l", "e", "S", "h", "e", "e", "t">>  \* "StyleSheet"
V_PRELOAD == <<"P", "R", "E", "L", "O", "A", "D">>  \* "PRELOAD"
V_preload_stylesheet == <<"p", "r", "e", "l", "o", "a", "d", " ", "s", "t", "y", "l", "e", "s", "h", "e", "e", "t">>  \* "preload stylesheet"
V_blank == <<" ">>  \* " "
V_padded == <<" ", "/", "x", " ">>  \* " /x "
V_https_a_x == <<"h", "t", "t", "p", "s", ":", "/", "/", "a", "/", "x">>  \* "https://a/x"
V_proxied_b_x == <<"/", "r", "e", "s", "o", "u", "r", "c", "e", "?", "u", "r", "l", "=", "h", "t", "t", "p", "s", "%", "3", "A", "%", "2", "F", "%", "2", "F", "b", "%", "2", "F", "x">>  \* "/resource?url=https%3A%2F%2Fb%2Fx"

\* an attribute that is absent or has one of vals
Opt(name, vals) == {<<>>} \cup {<< <<name, v>> >> : v \in vals}

\* references as they are written: empty, blank, relative, padded, absolute
RefValues == {<<>>, V_blank, V_x, V_padded, V_abs}

AnchorElems ==
    {Elem(T_a, h \o m \o x) :
        h \in Opt(A_href, RefValues),
        m \in Opt(A_data_proxy_href, {V_abs}),
        x \in {<<>>, << <<A_rel, V_preload>>, <<A_target, V_x>> >>}}

FormElems ==
    {Elem(T_form, a \o m \o x) :
        a \in Opt(A_action, RefValues),
        m \in Opt(A_data_proxy_action, {V_abs}),
        x \in {<<>>, << <<A_method, V_POST>>, <<A_enctype, V_x>> >>}}

LinkElems ==
    {Elem(T_link, <<>>)} \cup
    {Elem(T_link, r \o h \o x) :
        r \in Opt(A_rel, {V_stylesheet, V_Stylesheet, V_preload, V_PRELOAD,
                          V_preload_stylesheet, V_dns_prefetch, V_icon}) \ {<<>>},
        h \in Opt(A_href, {V_blank, V_abs}),
        x \in {<<>>, << <<A_integrity, V_x>>, <<A_crossorigin, V_x>> >>}}

MediaElems ==
    {Elem(t, s \o d \o x) :
        t \in MediaTags,
        s \in Opt(A_src, {<<>>, V_blank, V_x, V_abs}),
        d \in Opt(A_data_src, {V_slash_x}),
        x \in {<<>>, << <<A_srcset, V_abs>>, <<A_loading, V_x>> >>}}

PosterElems ==
    {Elem(T_video, s \o << <<A_poster, V_abs>> >>) : s \in Opt(A_src, {V_x})}

RefElems == AnchorElems \cup FormElems \cup LinkElems \cup MediaElems \cup PosterElems

\* the documents made of one of the elements es
OneElement(es) == {<<[tag |-> e.tag, attrs |-> e.attrs, parent |-> 0]>> : e \in es}

\* the attributes of a start tag as str(soup) writes them, one name="value"
\* each (the characters a value needs escaped are escaped by the writer and
\* unescaped by the parser, and are left as they are here)
RECURSIVE attr_pairs(_, _)
attr_pairs(attrs, names) ==
    IF names = {} THEN <<>>
    ELSE LET n == CHOOSE x \in names : TRUE
         IN  << <<n, attrs[n]>> >> \o attr_pairs(attrs, names \ {n})

\* line 133: str(soup), the document of the elements that were not decomposed
serialize(soup) ==
    LET kept == {i \in 1..Len(soup) : ~soup[i].gone}
        pos(i) == Cardinality({j \in kept : j <= i})
        nth(k) == CHOOSE i \in kept : pos(i) = k
    IN  [k \in 1..Cardinality(kept) |->
            [tag |-> soup[nth(k)].tag,
             attrs |-> attr_pairs(soup[nth(k)].attrs, DOMAIN soup[nth(k)].attrs),
             parent |-> IF soup[nth(k)].parent = 0 THEN 0 ELSE pos(soup[nth(k)].parent)]]

RewriteInit ==
    /\ ServerInit /\ environ = Unset
    /\ fpc = "document"
    /\ farg \in [html : Documents \cup OneElement(RefElems), base_url : {B_base}]
    /\ fres = <<>>

SanitizeOnce ==
    /\ fpc = "document"
    /\ fres' = <<sanitize_and_rewrite_html(farg.html, farg.base_url)>>
    /\ fpc' = "once"
    /\ UNCHANGED <<server_vars, farg>>

SanitizeAgain ==
    /\ fpc = "once"
    /\ fres' = fres \o <<sanitize_and_rewrite_html(serialize(fres[1]), farg.base_url)>>
    /\ fpc' = "twice"
    /\ UNCHANGED <<server_vars, farg>>

RewriteNext == SanitizeOnce \/ SanitizeAgain

RewriteSpec == RewriteInit /\ [][RewriteNext]_vars

\* ------------------------------------------------------------------------
\* The html /proxy makes of a fetched page, with the page text spelled out
\* ------------------------------------------------------------------------
B_final == <<"h", "t", "t", "p", "s", ":", "/", "/", "b", "/", "r">>  \* "https://b/r"
H_script == <<"x", "/", "<", "s", "c", "r", "i", "p", "t", ">">>  \* "x/<script>"
S_placeholder_head == <<"<", "h", "t", "m", "l", ">", "<", "b", "o", "d", "y", ">", "<", "h", "2", ">", "N", "o", "n", "-", "H", "T", "M", "L", " ", "c", "o", "n", "t", "e", "n", "t", "<", "/", "h", "2", ">", "<", "p", ">", "C", "o", "n", "t", "e", "n", "t", "-", "T", "y", "p", "e", ":", " ">>  \* "<html><body><h2>Non-HTML content</h2><p>Content-Type: "
S_placeholder_tail == <<"<", "/", "p", ">", "<", "/", "b", "o", "d", "y", ">", "<", "/", "h", "t", "m", "l", ">">>  \* "</p></body></html>"
S_script_tag == <<"<", "s", "c", "r", "i", "p", "t", ">">>  \* "<script>"

\* line 239: the placeholder body
placeholder_html(content_type) ==
    S_placeholder_head \o content_type \o S_placeholder_tail

\* lines 236-241: the html, as text for the placeholder and as the tree
\* str(soup) serializes for a sanitized document
proxy_page(resp) ==
    LET h == proxy_html(resp)
    IN  IF h.kind = "placeholder"
        THEN [kind |-> "placeholder", text |-> placeholder_html(h.content_type)]
        ELSE [kind |-> "sanitized",
              soup |-> sanitize_and_rewrite_html(h.text.doc, h.base_url)]

\* what upstream can send: the Content-Type header, the document, whether
\* the text begins with "<!DOCTYPE html", and the url after redirects
PageHeaders == {H_html, H_png, H_script}
PageDocuments == OneElement(ElemKinds \cup MediaElems)
PageFinals(url) == {url, B_final}

PageInit ==
    /\ ServerInit /\ environ = Unset
    /\ fpc = "response"
    /\ farg \in [url : {B_base},
                 resp : [ok : {TRUE}, final : PageFinals(B_base), ctype : PageHeaders,
                         text : [doc : PageDocuments, doctype : BOOLEAN]]]
    /\ fres = NoValue

MakePage ==
    /\ fpc = "response"
    /\ fres' = proxy_page(farg.resp)
    /\ fpc' = "page"
    /\ UNCHANGED <<server_vars, farg>>

PageNext == MakePage

PageSpec == PageInit /\ [][PageNext]_vars

\* ------------------------------------------------------------------------
\* The css rewrite of /resource, with the stylesheet text spelled out
\* ------------------------------------------------------------------------
S_url_open == <<"u", "r", "l", "(">>  \* "url("
S_close == <<")">>  \* ")"
S_data == <<"d", "a", "t", "a", ":">>  \* "data:"
K_data == <<"d", "a", "t", "a", ":", "x">>  \* "data:x"
K_DATA == <<"D", "A", "T", "A", ":", "x">>  \* "DATA:x"
K_head == <<"a", "{", "b", ":">>  \* "a{b:"
K_tail == <<"}">>  \* "}"
U_sheet == <<"h", "t", "t", "p", "s", ":", "/", "/", "a", "/", "d", "/", "s">>  \* "https://a/d/s"

\* str.strip(chars)
strip_chars(s, cs) ==
    LET keep == {i \in 1..Len(s) : s[i] \notin cs}
    IN  IF keep = {} THEN <<>>
        ELSE SubSeq(s, CHOOSE i \in keep : \A j \in keep : i <= j,
                       CHOOSE i \in keep : \A j \in keep : j <= i)

\* line 33: CSS_URL_RE = url\(([^)]+)\) matched at the start of text: the
\* index of the closing parenthesis, or 0 when there is no match
CSS_URL_RE(text) ==
    LET close == FirstOf(text, {")"}, Len(S_url_open) + 1)
    IN  IF startswith(text, S_url_open) /\ close <= Len(text)
               /\ close > Len(S_url_open) + 1
        THEN close
        ELSE 0

\* lines 282-289: the replacement for a match whose group is group
replacer(group, url) ==
    LET raw == strip_chars(strip(group), {"\"", "'"})
    IN  IF startswith(lower(raw), S_data)
        THEN S_url_open \o raw \o S_close
        ELSE LET absu == resolve(url, raw)
             IN  IF absu = <<>>
                 THEN S_url_open \o raw \o S_close
                 ELSE S_url_open \o resource_proxy_path(absu) \o S_close

\* line 290: CSS_URL_RE.sub(replacer, text), matches taken left to right
RECURSIVE css_sub(_, _)
css_sub(text, url) ==
    IF text = <<>> THEN <<>>
    ELSE LET close == CSS_URL_RE(text)
         IN  IF close = 0
             THEN <<text[1]>> \o css_sub(Tail(text), url)
             ELSE replacer(SubSeq(text, Len(S_url_open) + 1, close - 1), url)
                      \o css_sub(SubSeq(text, close + 1, Len(text)), url)

\* lines 274-292: the text served for a fetched resource
resource_text(url, header, text) ==
    IF is_css(url, resource_content_type(header))
    THEN css_sub(text, url)
    ELSE text

\* what is written between the parentheses of url(...): a reference, bare or
\* quoted, padded or not
CssRefs ==
    {w \o q \o x \o q \o w :
        w \in {<<>>, <<" ">>},
        q \in {<<>>, <<"\"">>, <<"'">>},
        x \in {<<>>, V_x, V_abs, K_data, K_DATA}}

\* a stylesheet: one declaration per reference
RECURSIVE css_text(_)
css_text(refs) ==
    IF refs = <<>> THEN <<>>
    ELSE K_head \o S_url_open \o refs[1] \o S_close \o K_tail \o css_text(Tail(refs))

CssInit ==
    /\ ServerInit /\ environ = Unset
    /\ fpc = "fetched"
    /\ farg \in [url : {U_sheet, U_css},
                 ctype : {EnvOf(H_css), EnvOf(H_png)},
                 refs : UNION {[1..n -> CssRefs] : n \in 1..MaxUrls}]
    /\ fres = <<>>

RewriteCss ==
    /\ fpc = "fetched"
    /\ fres' = resource_text(farg.url, farg.ctype, css_text(farg.refs))
    /\ fpc' = "served"
    /\ UNCHANGED <<server_vars, farg>>

CssNext == RewriteCss

CssSpec == CssInit /\ [][CssNext]_vars

\* ------------------------------------------------------------------------
\* Properties
\* ------------------------------------------------------------------------
Arrives(r) == req[r].pc = "idle" /\ req'[r].pc # "idle"
Done(r) == req[r].pc = "done"
CachesUnchanged == UNCHANGED <<PROXY_CACHE, RESOURCE_CACHE>>

\* the whitelist setting e holds at least one rule and no rule is a prefix of url
WhitelistRejects(url, e) ==
    LET rules == allowed_list(strip(getenv(e)))
    IN  /\ strip(getenv(e)) # <<>>
        /\ \A i \in 1..Len(rules) : ~startswith(lower(url), rule_prefix(rules[i]))

\* C1, parts of the statement below
C1_FailFastStep ==
    \A r \in Req :
        Arrives(r) =>
            LET u == req'[r].url
            IN  /\ ~ABS_URL_RE(u) => req'[r].pc = "done" /\ req'[r].status = 400
                /\ (ABS_URL_RE(u) /\ WhitelistRejects(u, environ))
                       => req'[r].pc = "done" /\ req'[r].status = 403
                /\ req'[r].status \in {400, 403}
                       => req'[r].nfetch = 0 /\ CachesUnchanged

C1_NoFetchOnReject ==
    \A r \in Req : req[r].status \in {400, 403} => Done(r) /\ req[r].nfetch = 0

\* C1: in /proxy and /resource a url without an http(s):// scheme ends with 400
\* and a scheme-absolute url the whitelist rejects ends with 403, in the very
\* step the request arrives: no upstream fetch was issued and both caches are
\* as they were.
C1_FailFast == []C1_NoFetchOnReject /\ [][C1_FailFastStep]_vars

C1_Witness ==
    \E r, q \in Req :
        /\ req[r].status = 400 /\ req[r].kind = "proxy"
        /\ req[q].status = 403 /\ req[q].kind = "resource" /\ ABS_URL_RE(req[q].url)

\* C2, parts of the statement below
C2_RejectedStep ==
    \A r \in Req :
        /\ (Arrives(r) /\ ABS_URL_RE(req'[r].url)
                /\ WhitelistRejects(req'[r].url, environ))
               => req'[r].pc = "done" /\ req'[r].status # 200
        /\ Done(r) => req'[r] = req[r]

\* C2: a request that arrives for a url the whitelist configured at that moment
\* rejects is answered at once and never with 200, whether or not the url is in
\* a cache, and a finished request's response never changes afterwards.
C2_WhitelistBeforeCache == [][C2_RejectedStep]_vars

C2_Witness ==
    \E r \in Req :
        /\ Done(r) /\ req[r].status = 403 /\ req[r].kind = "proxy"
        /\ req[r].url \in DOMAIN PROXY_CACHE

\* C3: when reset_session has returned, having run with no request in flight,
\* both caches are empty; and the one /proxy request handled since then, if it
\* succeeded, made one upstream fetch and returns the html made of that fetch.
C3_ResetThenFresh ==
    /\ (reset_pc = "idle" /\ since = {})
           => PROXY_CACHE = EmptyDict /\ RESOURCE_CACHE = EmptyDict
    /\ \A r \in Req :
           (reset_pc = "idle" /\ since = {r} /\ req[r].kind = "proxy")
               => /\ req[r].pc # "hit"
                  /\ req[r].status \in {0, 200, 400, 403, 502}
                  /\ (Done(r) /\ req[r].status = 200)
                         => /\ req[r].nfetch = 1
                            /\ req[r].local # NoValue
                            /\ req[r].resp.html = req[r].local.html
                            /\ PROXY_CACHE = Put(EmptyDict, req[r].url, req[r].local.html)

C3_Witness ==
    \E r, q \in Req :
        /\ reset_pc = "idle" /\ since = {r}
        /\ Done(r) /\ req[r].kind = "proxy" /\ req[r].status = 200
        /\ Done(q) /\ req[q].kind = "proxy" /\ req[q].status = 200
        /\ req[q].url = req[r].url /\ req[q].nfetch = 1
        /\ req[q].resp.html # req[r].resp.html

\* C4, parts of the statement below
C4_Limit == 5 * 1024 * 1024

C4_EntriesSmall ==
    /\ \A u \in DOMAIN RESOURCE_CACHE : RESOURCE_CACHE[u].content.len <= C4_Limit
    /\ \A r \in Req :
           (Done(r) /\ req[r].kind = "resource" /\ req[r].status = 200
                /\ req[r].resp.content.len > C4_Limit)
               => req[r].nfetch = 1

C4_OversizeStep ==
    \A r \in Req :
        (req[r].kind = "resource" /\ ~Done(r) /\ req'[r].pc = "done"
             /\ req[r].local # NoValue /\ req[r].local.content.len > C4_Limit)
            => /\ req'[r].status = 200
               /\ req'[r].resp = req[r].local
               /\ UNCHANGED RESOURCE_CACHE

\* C4: no entry of the resource cache is longer than 5 * 1024 * 1024 bytes; a
\* /resource answer longer than that always comes from an upstream fetch of
\* the answering request, never from the cache, and the step that answers it
\* with 200 leaves the resource cache as it was.
C4_AdmissionLimit == []C4_EntriesSmall /\ [][C4_OversizeStep]_vars

C4_Witness ==
    \E r, q \in Req :
        /\ r # q /\ Done(r) /\ Done(q)
        /\ req[r].kind = "resource" /\ req[q].kind = "resource"
        /\ req[r].url = req[q].url
        /\ req[r].status = 200 /\ req[q].status = 200
        /\ req[r].resp.content.len > C4_Limit /\ req[q].resp.content.len > C4_Limit
        /\ req[r].nfetch = 1 /\ req[q].nfetch = 1
        /\ req[r].url \notin DOMAIN RESOURCE_CACHE

\* C5: every successful /proxy response carries as url the final url of the
\* upstream fetch its html was made from (for sanitized html, the base url
\* the sanitizer was given), freshly fetched or served from the page cache.
C5_UrlIsFinalUrl ==
    \A r \in Req :
        (Done(r) /\ req[r].kind = "proxy" /\ req[r].status = 200
             /\ req[r].resp.html.kind = "sanitized")
            => req[r].resp.url = req[r].resp.html.base_url

\* C6, parts of the statement below
C6_Prefix(kind) ==
    IF kind = "proxy" THEN "Upstream fetch failed: " ELSE "Resource fetch failed: "

C6_FetchCount ==
    \A r \in Req :
        /\ req[r].nfetch <= 1
        /\ req[r].pc \in {"idle", "lookup", "hit", "fetch"} => req[r].nfetch = 0
        /\ (Done(r) /\ req[r].status = 200 /\ req[r].local = NoValue)
               => req[r].nfetch = 0
        /\ req[r].status = 502
               => /\ Done(r) /\ req[r].nfetch = 1
                  /\ \E e \in FetchErrors :
                         req[r].resp = [detail |-> <<C6_Prefix(req[r].kind), e>>]

C6_FailStep ==
    \A r \in Req :
        /\ (req[r].status # 502 /\ req'[r].status = 502)
               => req[r].pc = "fetch" /\ CachesUnchanged
        /\ Done(r) => req'[r] = req[r]
        /\ req[r].pc = "fetch" => req'[r].pc \in {"fetch", "store", "done"}

\* C6: a request issues at most one upstream fetch and none when it is served
\* from a cache; a failed fetch ends the request with 502 carrying the
\* upstream error text, in a step that writes to neither cache, and a finished
\* request takes no further step.
C6_SingleAttempt == []C6_FetchCount /\ [][C6_FailStep]_vars

C6_Witness ==
    \E r, q \in Req :
        /\ r # q /\ req[r].url = req[q].url /\ req[r].kind = req[q].kind
        /\ req[r].status = 502
        /\ Done(q) /\ req[q].status = 200 /\ req[q].nfetch = 1
        /\ PROXY_CACHE = Put(EmptyDict, req[q].url, req[q].resp.html)

\* C7, parts of the statement below
C7_EntryKeptStep ==
    /\ \A u \in (DOMAIN PROXY_CACHE) \cap (DOMAIN PROXY_CACHE') :
           PROXY_CACHE'[u] = PROXY_CACHE[u]
    /\ \A u \in (DOMAIN RESOURCE_CACHE) \cap (DOMAIN RESOURCE_CACHE') :
           RESOURCE_CACHE'[u] = RESOURCE_CACHE[u]

\* C7: once a url has an entry in the page cache or in the resource cache, no
\* step replaces the value stored under it with a different one (a reset
\* removes entries; it does not change them).
C7_EntriesImmutable == [][C7_EntryKeptStep]_vars

\* C8, parts of the statement below
C8_RuleAsStated(h) ==
    IF startswith(h, S_http_slash) \/ startswith(h, S_https_slash)
    THEN h
    ELSE S_https_slash \o h

C8_AllowedAsStated(url, rules) ==
    \E i \in 1..Len(rules) : startswith(lower(url), C8_RuleAsStated(rules[i]))

\* C8: with at least one rule configured, /proxy and /resource both let a
\* scheme-absolute url pass exactly when its lowercased form starts with some
\* rule, a rule beginning with http:// or https:// compared as it is and any
\* other rule H compared as https://H.
C8_PrefixRule ==
    LET rules == allowed_list(strip(getenv(farg.environ)))
    IN  (fpc = "gate" /\ ABS_URL_RE(farg.url) /\ Len(rules) > 0)
            => /\ fres.proxy # -1
                   => (fres.proxy = 0 <=> C8_AllowedAsStated(farg.url, rules))
               /\ fres.resource # -1
                   => (fres.resource = 0 <=> C8_AllowedAsStated(farg.url, rules))

\* C9, parts of the statement below
C9_NoPattern(e) ==
    ~e.set \/ \A i \in 1..Len(e.val) : e.val[i] = "," \/ IsSpace(e.val[i])

\* C9: when the whitelist value is absent, empty, or made of commas and
\* whitespace only, every scheme-absolute url passes: neither handler
\* answers 403.
C9_EmptyMeansOpen ==
    (fpc = "gate" /\ ABS_URL_RE(farg.url) /\ C9_NoPattern(farg.environ))
        => fres.proxy # 403 /\ fres.resource # 403

\* C10, parts of the statement below
C10_ActiveTags == {T_script, T_iframe, T_object, T_embed}

C10_HasHandler(el) ==
    \E i \in 1..Len(el.attrs) : startswith(lower(el.attrs[i][1]), <<"o", "n">>)

C10_RuleRemoves(el) ==
    \/ lower(el.tag) \in C10_ActiveTags
    \/ /\ lower(el.tag) = T_meta
       /\ \E i \in 1..Len(el.attrs) :
              lower(el.attrs[i][1]) = A_http_equiv /\ lower(el.attrs[i][2]) = V_refresh
    \/ /\ lower(el.tag) = T_link
       /\ \E i \in 1..Len(el.attrs) :
              /\ lower(el.attrs[i][1]) = A_rel
              /\ \E t \in 1..Len(tokens(el.attrs[i][2])) :
                     lower(tokens(el.attrs[i][2])[t]) \in HintRels

\* C10: the sanitized document holds no script, iframe, object or embed
\* element (each went with all it enclosed), no meta element whose http-equiv
\* is refresh in any letter case, and no attribute whose name begins with "on"
\* in any letter case; an element that carried such an attribute is gone only
\* if a removal rule applies to it or to an element enclosing it.
C10_NothingActive ==
    fpc = "sanitized" =>
        /\ Len(fres) = Len(farg.html)
        /\ \A i \in 1..Len(fres) :
               ~fres[i].gone =>
                   /\ fres[i].tag \notin C10_ActiveTags
                   /\ fres[i].parent # 0 => ~fres[fres[i].parent].gone
                   /\ ~(fres[i].tag = T_meta
                          /\ A_http_equiv \in DOMAIN fres[i].attrs
                          /\ lower(fres[i].attrs[A_http_equiv]) = V_refresh)
                   /\ \A k \in DOMAIN fres[i].attrs : ~startswith(lower(k), <<"o", "n">>)
        /\ \A i \in 1..Len(fres) :
               (C10_HasHandler(farg.html[i]) /\ fres[i].gone)
                   => \E j \in 1..i : encloses(fres, j, i) /\ C10_RuleRemoves(farg.html[j])

C10_Witness ==
    /\ fpc = "sanitized"
    /\ \E i, j \in 1..Len(fres) :
           /\ C10_HasHandler(farg.html[i]) /\ ~fres[i].gone
           /\ farg.html[j].parent = i
           /\ lower(farg.html[j].tag) \in C10_ActiveTags /\ fres[j].gone

\* C11, parts of the statement below
C11_RefAttrs == {A_src, A_href, A_action, A_srcset, A_poster}

\* C11: on every element of the sanitized document, every attribute among
\* src, href, action, srcset and poster that names something (its value is
\* not blank) is a /resource?url= path, or is "#" (alone, or next to a
\* data-proxy-href or data-proxy-action marker): no element keeps a reference
\* a renderer would follow to another origin.
C11_NoDirectReference ==
    fpc \in {"once", "twice"} =>
        \A i \in 1..Len(fres[1]) :
            ~fres[1][i].gone =>
                \A k \in (DOMAIN fres[1][i].attrs) \cap C11_RefAttrs :
                    LET v == fres[1][i].attrs[k]
                    IN  \/ strip(v) = <<>>
                        \/ startswith(v, S_resource_url)
                        \/ v = V_hash

\* C12: every a element of the sanitized document has target "_self" and rel
\* "nofollow noopener"; when its href, as parsed, resolves against the base
\* url, its href is "#" and its data-proxy-href is the resolved url.
C12_AnchorsIntercepted ==
    fpc \in {"once", "twice"} =>
        \A i \in 1..Len(fres[1]) :
            (~fres[1][i].gone /\ fres[1][i].tag = T_a) =>
                LET given == parse(farg.html)[i].attrs
                    out == fres[1][i].attrs
                    abs == resolve(farg.base_url, Get(given, A_href))
                IN  /\ A_target \in DOMAIN out /\ out[A_target] = V_self
                    /\ A_rel \in DOMAIN out /\ out[A_rel] = V_nofollow
                    /\ abs # <<>> =>
                           /\ A_href \in DOMAIN out /\ out[A_href] = V_hash
                           /\ A_data_proxy_href \in DOMAIN out
                           /\ out[A_data_proxy_href] = abs

C12_Witness ==
    /\ fpc = "once"
    /\ Len(farg.html) = 1 /\ farg.html[1].tag = T_a
    /\ farg.html[1].attrs = << <<A_href, V_padded>>, <<A_rel, V_preload>>, <<A_target, V_x>> >>
    /\ fres[1][1].attrs[A_href] = V_hash
    /\ fres[1][1].attrs[A_data_proxy_href] = V_https_a_x
    /\ fres[1][1].attrs[A_target] = V_self
    /\ fres[1][1].attrs[A_rel] = V_nofollow

\* C13: an a element whose href is missing or blank leaves the sanitizer
\* without a data-proxy-href attribute, and a form element whose action is
\* missing or blank without a data-proxy-action attribute, whatever
\* attributes the element came with.
C13_NoMarkerWithoutReference ==
    fpc \in {"once", "twice"} =>
        \A i \in 1..Len(fres[1]) :
            ~fres[1][i].gone =>
                LET given == parse(farg.html)[i].attrs
                    out == fres[1][i].attrs
                IN  /\ (fres[1][i].tag = T_a /\ strip(Get(given, A_href)) = <<>>)
                           => A_data_proxy_href \notin DOMAIN out
                    /\ (fres[1][i].tag = T_form /\ strip(Get(given, A_action)) = <<>>)
                           => A_data_proxy_action \notin DOMAIN out

\* C15, parts of the statement below
C15_Rels(attrs) ==
    {lower(tokens(Get(attrs, A_rel))[k]) : k \in 1..Len(tokens(Get(attrs, A_rel)))}

\* C15: a link element whose rel tokens, in any letter case and next to any
\* other token, include preconnect, dns-prefetch, prefetch or preload is not
\* in the sanitized document; a link element that is, and whose rel tokens
\* include stylesheet, has no integrity, crossorigin or referrerpolicy and,
\* when its href resolves, has the /resource?url= path of the resolved url
\* as href.
C15_LinkRules ==
    fpc \in {"once", "twice"} =>
        \A i \in 1..Len(fres[1]) :
            parse(farg.html)[i].tag = T_link =>
                LET given == parse(farg.html)[i].attrs
                    out == fres[1][i].attrs
                    abs == resolve(farg.base_url, Get(given, A_href))
                IN  /\ C15_Rels(given) \cap HintRels # {} => fres[1][i].gone
                    /\ (V_stylesheet \in C15_Rels(given) /\ ~fres[1][i].gone)
                           => /\ (DOMAIN out) \cap LeakAttrs = {}
                              /\ abs # <<>> => out[A_href] = resource_proxy_path(abs)

\* C18, parts of the statement below
C18_Names(el) == {el.attrs[k][1] : k \in 1..Len(el.attrs)}

\* C18: the sanitizer applied to its own output, with the same base url,
\* decomposes no element and leaves every element with at least the
\* attribute names it came with.
C18_FixedPoint ==
    fpc = "twice" =>
        LET again == serialize(fres[1])
        IN  /\ Len(fres[2]) = Len(again)
            /\ \A i \in 1..Len(again) :
                   /\ ~fres[2][i].gone
                   /\ fres[2][i].tag = again[i].tag
                   /\ C18_Names(again[i]) \subseteq DOMAIN fres[2][i].attrs

C18_Witness ==
    /\ fpc = "twice"
    /\ \E i, j \in 1..Len(fres[1]) :
           /\ fres[1][i].gone /\ ~fres[1][j].gone
           /\ C10_HasHandler(farg.html[j])
           /\ Len(fres[2]) < Len(fres[1])
           /\ \E k \in 1..Len(fres[2]) : fres[2][k].tag = fres[1][j].tag

\* C14: in the html /proxy makes of a page, every img, video, audio, source
\* and track element is without loading, decoding, referrerpolicy,
\* integrity, crossorigin, srcset and data-src; and when the reference it
\* came with (src, or data-src when it had no src) resolves against the url
\* the page was finally fetched from, its src is the /resource?url= path of
\* the percent-encoded resolved url.
C14_MediaThroughProxy ==
    (fpc = "page" /\ fres.kind = "sanitized") =>
        \A i \in 1..Len(fres.soup) :
            (~fres.soup[i].gone /\ fres.soup[i].tag \in MediaTags) =>
                LET given == parse(farg.resp.text.doc)[i].attrs
                    out == fres.soup[i].attrs
                    ref == IF A_src \in DOMAIN given THEN given[A_src]
                           ELSE Get(given, A_data_src)
                    abs == resolve(farg.resp.final, ref)
                IN  /\ (DOMAIN out) \cap MediaStripped = {}
                    /\ abs # <<>> =>
                           /\ A_src \in DOMAIN out
                           /\ out[A_src] = S_resource_url \o quote(abs)

C14_Witness ==
    /\ fpc = "page" /\ fres.kind = "sanitized"
    /\ farg.resp.final = B_final /\ farg.resp.final # farg.url
    /\ farg.resp.text.doc[1].tag = T_img
    /\ farg.resp.text.doc[1].attrs =
           << <<A_data_src, V_slash_x>>, <<A_srcset, V_abs>>, <<A_loading, V_x>> >>
    /\ fres.soup[1].attrs = Put(EmptyDict, A_src, V_proxied_b_x)

\* C20, parts of the statement below
C20_HasScript(page) ==
    IF page.kind = "placeholder"
    THEN contains(page.text, S_script_tag)
    ELSE \E i \in 1..Len(page.soup) : ~page.soup[i].gone /\ page.soup[i].tag = T_script

\* C20: the html /proxy makes of a fetched page holds no script element,
\* whether it is the sanitized document or the placeholder that reports the
\* Content-Type header upstream sent.
C20_NoScriptInHtml == fpc = "page" => ~C20_HasScript(fres)

\* C16, parts of the statement below
C16_Trim(ref) == strip_chars(ref, {" ", "\t", "\n", "\r", "\"", "'"})
C16_IsData(ref) == startswith(lower(C16_Trim(ref)), S_data)
C16_IsCss ==
    \/ contains(lower(farg.ctype.val), S_text_css)
    \/ endswith(lower(url_path(farg.url)), S_dot_css)

C16_Occurrence(ref, url) ==
    LET abs == resolve(url, C16_Trim(ref))
    IN  IF abs = <<>>
        THEN S_url_open \o ref \o S_close
        ELSE S_url_open \o S_resource_url \o quote(abs) \o S_close

RECURSIVE C16_Text(_, _)
C16_Text(refs, url) ==
    IF refs = <<>> THEN <<>>
    ELSE K_head \o C16_Occurrence(refs[1], url) \o K_tail \o C16_Text(Tail(refs), url)

\* C16: in a stylesheet served by /resource (Content-Type naming text/css, or
\* url path ending in .css) whose url(...) references are not data: uris,
\* each url(X) has become url(/resource?url=Q), Q the percent-encoded url
\* that X, trimmed of whitespace and quotes, resolves to against the
\* stylesheet url; where X does not resolve, the occurrence is as it was.
C16_UrlsRewritten ==
    (fpc = "served" /\ C16_IsCss
         /\ \A k \in 1..Len(farg.refs) : ~C16_IsData(farg.refs[k]))
        => fres = C16_Text(farg.refs, farg.url)

\* C17: a stylesheet served by /resource whose url(...) references are all
\* data: uris (in any letter case, after trimming whitespace and quotes) is
\* served as it was fetched, character for character.
C17_DataUrisUntouched ==
    (fpc = "served" /\ C16_IsCss
         /\ \A k \in 1..Len(farg.refs) : C16_IsData(farg.refs[k]))
        => fres = css_text(farg.refs)

\* C19, parts of the statement below
C19_Requested(kind) == {req[r].url : r \in {q \in Req : req[q].kind = kind}}

C19_NoError ==
    /\ \A r \in Req : Done(r) => req[r].status \in {200, 400, 403, 502}
    /\ DOMAIN PROXY_CACHE \subseteq C19_Requested("proxy")
    /\ DOMAIN RESOURCE_CACHE \subseteq C19_Requested("resource")

C19_RaceStep ==
    /\ (reset_pc = "idle" /\ reset_pc' # "idle") => PROXY_CACHE' = EmptyDict
    /\ (reset_pc # "idle" /\ reset_pc' = "idle") => RESOURCE_CACHE' = EmptyDict
    /\ \A r \in Req :
           (req[r].pc = "store" /\ req'[r].pc = "done")
               => /\ req'[r].status = 200
                  /\ req[r].kind = "proxy"
                         => PROXY_CACHE' = Put(PROXY_CACHE, req[r].url, req[r].local.html)
                  /\ (req[r].kind = "resource" /\ req[r].local.content.len <= C4_Limit)
                         => RESOURCE_CACHE' = Put(RESOURCE_CACHE, req[r].url, req[r].local)

\* C19: however reset_session interleaves with requests in flight, each of
\* its two steps empties its cache, a request that has fetched completes
\* with 200 and its write lands under its url in the cache as the reset left
\* it, no request ends with an error of the server's own (only 200, 400, 403
\* and 502 occur), and every cache key is a url some request asked for.
C19_ResetRaceHarmless == []C19_NoError /\ [][C19_RaceStep]_vars

====
